---- MODULE Spec2Model ----
(***************************************************************************)
(* The order lifecycle engine of dexbot/strategies/base.py (class Worker). *)
(*                                                                         *)
(* The worker is single threaded: one operation runs to completion before  *)
(* the next one starts.  An operation is cut into steps only where it      *)
(* invokes the remote ledger through retry_action, because the remote      *)
(* decides there, attempt by attempt, whether the invocation succeeds or   *)
(* which error it raises.  Everything the code does between two remote     *)
(* invocations belongs to one step.                                        *)
(*                                                                         *)
(* Five specifications share the module.  Spec runs the engine's           *)
(* operations (retry_action, buy, sell, the cancels, pause_worker, purge). *)
(* EvSpec builds the worker's event handlers and delivers notifications to *)
(* them.  AcctSpec applies the valuation functions to every account state  *)
(* within the bounds, OrdSpec the order queries (sort_orders and the buy   *)
(* and sell filters) to every list of orders within the bounds.  StratSpec *)
(* runs the handlers of the Support Price strategy of                      *)
(* dexbot/strategies/support_price.py.                                     *)
(*                                                                         *)
(* Quantities (amounts, balances) are integers counting units of           *)
(* 10^-MaxPrecision; prices are whole numbers of BASE per QUOTE, so that   *)
(* price * amount is exact in the same units.                              *)
(***************************************************************************)
EXTENDS Integers, Sequences, FiniteSets

\* ---------------------------------------------------------------- bounds
MaxOrders == 3
MaxOrderId == 1
MaxAmount == 2
MaxPrice == 2
MaxBalance == 2
MaxPrecision == 1
MaxOpen == 2
MaxHeld == 1
MaxForSale == 1
MaxRead == 1
MaxGiven == 2
MaxTicks == 6

\* ------------------------------------------------------------- constants
MAX_TRIES == 3

\* What one invocation of a remote action can do: succeed, or raise
\*   amt      UnhandledRPCError "Assert Exception: amount_to_sell.amount > 0"
\*   exp      UnhandledRPCError "now <= trx.expiration"
\*   notfound UnhandledRPCError "Assert Exception: maybe_found != nullptr:
\*            Unable to find Object"
\*   rpc      any other UnhandledRPCError
\*   key      MissingKeyError
\*   other    an exception of any other type
Outcome == {"ok", "amt", "exp", "notfound", "rpc", "key", "other"}

UnhandledRPCError == {"amt", "exp", "notfound", "rpc"}

EngineOps == {"buy", "sell", "cancel_orders", "cancel_all_orders",
              "pause_worker", "purge", "retry_action"}

CancelOps == {"cancel_orders", "cancel_all_orders", "pause_worker", "purge"}

StorageKeys == {"slider"}

\* The ids the ledger gives to placed orders (and the values a remote action
\* returns).
OrderIds == 1..MaxOrderId

VARIABLES
    disabled,        \* Worker.disabled, the fault flag
    recheck_orders,  \* Worker.recheck_orders
    savedOrders,     \* the worker's saved orders (Storage: clear_orders)
    stored,          \* the worker's persisted keys (Storage: clear)
    op,              \* the operation running, or the last one that ran
    pc,              \* "idle": between two operations; "call": inside
                     \* retry_action, about to invoke the remote action;
                     \* "done": the operation has returned or raised
    args,            \* the arguments and remote reads of the operation
    rt,              \* the frame of the current retry_action call
    cf,              \* the frame of the current cancel_orders call
    ret,             \* what the operation returned
    raised,          \* the error the operation raised, or "none"
    ev,              \* the event handlers of the worker and the
                     \* notification being delivered to them
    acct,            \* the account data a valuation reads from the ledger,
                     \* and what the valuation gave
    ord,             \* the order list an order query is given, and what
                     \* the queries returned
    strat            \* the Support Price strategy: its counter and prices,
                     \* and what its last handler did

vars == <<disabled, recheck_orders, savedOrders, stored, op, pc, args, rt, cf,
          ret, raised, ev, acct, ord, strat>>

\* ------------------------------------------------------------ arithmetic
RECURSIVE Pow10(_)
Pow10(n) == IF n = 0 THEN 1 ELSE 10 * Pow10(n - 1)

\* helper.truncate(number, decimals): number cut to `decimals` decimal
\* digits, toward zero.  x is in units of 10^-MaxPrecision.
Truncate(x, precision) ==
    LET step == Pow10(MaxPrecision - precision)
    IN  IF x >= 0 THEN (x \div step) * step
                  ELSE 0 - (((0 - x) \div step) * step)

\* ----------------------------------------------------------------- values
NoArgs ==
    [amount |-> 0, price |-> 0, balance |-> 0, precision |-> 0,
     return_none |-> FALSE, balanceRead |-> FALSE, orders |-> <<>>,
     tested |-> <<>>]

\* Python's None, in the shape of an order record.  An order's base and quote
\* are an amount and the symbol of its asset ("BASE" and "QUOTE" are the
\* market's two assets, "" is data the API did not supply); its price is a
\* fraction <<numerator, denominator>>.
None ==
    [kind |-> "None", id |-> 0, deleted |-> FALSE,
     base |-> 0, baseSym |-> "", quote |-> 0, quoteSym |-> "",
     price |-> <<0, 1>>]

\* The frame of a retry_action call: `tries` is the local of the code, the
\* other fields record what the call did so far.
RtInit ==
    [tries |-> 0, attempts |-> 0, amt |-> 0, exp |-> 0, clears |-> 0,
     refreshes |-> 0, waited2 |-> 0, waited6 |-> 0, last |-> "none",
     status |-> "again"]

\* The frame of a cancel_orders call: `ids` are the extracted order ids,
\* idx = 0 while the batched _cancel call runs and idx = i while the
\* individual _cancel call of ids[i] runs; `batch` is how the batched
\* retry_action call ended ("ok" or the error it raised), `singles` the ids
\* passed to individual _cancel calls so far.
CfInit ==
    [ids |-> <<>>, idx |-> 0, batch |-> "none", singles |-> <<>>]

\* ----------------------------------------------------------- retry_action
\* retry_action that retries every UnhandledRPCError, the unknown ones too.
RetryStep_RetriesAnyRPCError(f, outcome) ==
    LET g == [f EXCEPT !.attempts = @ + 1, !.last = outcome]
    IN  CASE outcome = "ok" -> [g EXCEPT !.status = "return"]
          [] outcome = "amt" ->
                IF f.tries > MAX_TRIES
                THEN [g EXCEPT !.amt = @ + 1, !.status = "raise"]
                ELSE [g EXCEPT !.amt = @ + 1, !.tries = @ + 1,
                               !.clears = @ + 1, !.refreshes = @ + 1,
                               !.waited2 = @ + 1, !.status = "again"]
          [] outcome = "exp" ->
                IF f.tries > MAX_TRIES
                THEN [g EXCEPT !.exp = @ + 1, !.status = "raise"]
                ELSE [g EXCEPT !.exp = @ + 1, !.tries = @ + 1,
                               !.clears = @ + 1, !.waited6 = @ + 1,
                               !.status = "again"]
          [] outcome \in {"rpc", "notfound"} ->
                IF f.tries > MAX_TRIES
                THEN [g EXCEPT !.status = "raise"]
                ELSE [g EXCEPT !.tries = @ + 1, !.clears = @ + 1,
                               !.waited6 = @ + 1, !.status = "again"]
          [] OTHER -> [g EXCEPT !.status = "raise"]

\* retry_action with the waits of the two transient classes exchanged.
RetryStep_WaitsExchanged(f, outcome) ==
    LET g == [f EXCEPT !.attempts = @ + 1, !.last = outcome]
    IN  CASE outcome = "ok" -> [g EXCEPT !.status = "return"]
          [] outcome = "amt" ->
                IF f.tries > MAX_TRIES
                THEN [g EXCEPT !.amt = @ + 1, !.status = "raise"]
                ELSE [g EXCEPT !.amt = @ + 1, !.tries = @ + 1,
                               !.clears = @ + 1, !.refreshes = @ + 1,
                               !.waited6 = @ + 1, !.status = "again"]
          [] outcome = "exp" ->
                IF f.tries > MAX_TRIES
                THEN [g EXCEPT !.exp = @ + 1, !.status = "raise"]
                ELSE [g EXCEPT !.exp = @ + 1, !.tries = @ + 1,
                               !.clears = @ + 1, !.waited2 = @ + 1,
                               !.status = "again"]
          [] OTHER -> [g EXCEPT !.status = "raise"]

\* The loop with one retry budget per error class.
RetryStep_PerClassBudget(f, outcome) ==
    LET g == [f EXCEPT !.attempts = @ + 1, !.last = outcome]
    IN  CASE outcome = "ok" -> [g EXCEPT !.status = "return"]
          [] outcome = "amt" ->
                IF f.amt > MAX_TRIES
                THEN [g EXCEPT !.amt = @ + 1, !.status = "raise"]
                ELSE [g EXCEPT !.amt = @ + 1, !.tries = @ + 1,
                               !.clears = @ + 1, !.refreshes = @ + 1,
                               !.waited2 = @ + 1, !.status = "again"]
          [] outcome = "exp" ->
                IF f.exp > MAX_TRIES
                THEN [g EXCEPT !.exp = @ + 1, !.status = "raise"]
                ELSE [g EXCEPT !.exp = @ + 1, !.tries = @ + 1,
                               !.clears = @ + 1, !.waited6 = @ + 1,
                               !.status = "again"]
          [] OTHER -> [g EXCEPT !.status = "raise"]

\* The loop that refreshes the account after an expired transaction too.
RetryStep_ExpRefreshes(f, outcome) ==
    LET g == [f EXCEPT !.attempts = @ + 1, !.last = outcome]
    IN  CASE outcome = "ok" -> [g EXCEPT !.status = "return"]
          [] outcome = "amt" ->
                IF f.tries > MAX_TRIES
                THEN [g EXCEPT !.amt = @ + 1, !.status = "raise"]
                ELSE [g EXCEPT !.amt = @ + 1, !.tries = @ + 1,
                               !.clears = @ + 1, !.refreshes = @ + 1,
                               !.waited2 = @ + 1, !.status = "again"]
          [] outcome = "exp" ->
                IF f.tries > MAX_TRIES
                THEN [g EXCEPT !.exp = @ + 1, !.status = "raise"]
                ELSE [g EXCEPT !.exp = @ + 1, !.tries = @ + 1,
                               !.clears = @ + 1, !.refreshes = @ + 1,
                               !.waited6 = @ + 1, !.status = "again"]
          [] OTHER -> [g EXCEPT !.status = "raise"]

\* One pass of the `while True` loop of retry_action: the action is invoked,
\* the remote answers `outcome`.  status "return": the call returns the
\* action's value; "raise": the error leaves retry_action; "again": the loop
\* goes round.
RetryStep(f, outcome) ==
    LET g == [f EXCEPT !.attempts = @ + 1, !.last = outcome]
    IN  CASE outcome = "ok" -> [g EXCEPT !.status = "return"]
          [] outcome = "amt" ->
                IF f.tries > MAX_TRIES
                THEN [g EXCEPT !.amt = @ + 1, !.status = "raise"]
                ELSE [g EXCEPT !.amt = @ + 1, !.tries = @ + 1,
                               !.clears = @ + 1, !.refreshes = @ + 1,
                               !.waited2 = @ + 1, !.status = "again"]
          [] outcome = "exp" ->
                IF f.tries > MAX_TRIES
                THEN [g EXCEPT !.exp = @ + 1, !.status = "raise"]
                ELSE [g EXCEPT !.exp = @ + 1, !.tries = @ + 1,
                               !.clears = @ + 1, !.waited6 = @ + 1,
                               !.status = "again"]
          [] OTHER -> [g EXCEPT !.status = "raise"]
\* ------------------------------------------------------------- buy / sell
\* The preflight that rejects a balance equal to the needed amount.
PlaceCheck_RejectsExactBalance(needed, balance) ==
    IF needed = 0
    THEN [verdict |-> "zero", balanceRead |-> FALSE]
    ELSE IF balance <= needed
         THEN [verdict |-> "insufficient", balanceRead |-> TRUE]
         ELSE [verdict |-> "submit", balanceRead |-> TRUE]

\* The preflight without the balance check.
PlaceCheck_NoBalanceCheck(needed, balance) ==
    IF needed = 0
    THEN [verdict |-> "zero", balanceRead |-> FALSE]
    ELSE [verdict |-> "submit", balanceRead |-> FALSE]

\* The preflight with the balance check before the size check.
PlaceCheck_BalanceFirst(needed, balance) ==
    IF balance < needed
    THEN [verdict |-> "insufficient", balanceRead |-> TRUE]
    ELSE IF needed = 0
         THEN [verdict |-> "zero", balanceRead |-> TRUE]
         ELSE [verdict |-> "submit", balanceRead |-> TRUE]

\* The preflight of buy and sell: the size check, then the balance check.
\* verdict "zero" and "insufficient" set the fault flag and return None,
\* "submit" goes on to retry_action.  balanceRead: self.balance was called.
PlaceCheck(needed, balance) ==
    IF needed = 0
    THEN [verdict |-> "zero", balanceRead |-> FALSE]
    ELSE IF balance < needed
         THEN [verdict |-> "insufficient", balanceRead |-> TRUE]
         ELSE [verdict |-> "submit", balanceRead |-> TRUE]

\* A preflight that passes takes the fault flag back.
DisabledAfter_ClearedOnSubmit(verdict, flag) == verdict # "submit"

\* The fault flag after the preflight: `self.disabled = True` on the two
\* rejections, untouched otherwise.
DisabledAfter(verdict, flag) == IF verdict = "submit" THEN flag ELSE TRUE

\* base_amount = truncate(price * amount, precision) of buy
BuyNeeded(a) == Truncate(a.price * a.amount, a.precision)

\* quote_amount = truncate(amount, precision) of sell
SellNeeded(a) == Truncate(a.amount, a.precision)

\* get_original_order(order_id, return_none) right after a submission of
\* `amount` at `price`: Order(order_id) is the ledger's record of the order,
\* whose base leg is the asset the order sells; for an order that is gone
\* the API supplies the id and the deleted mark only.
LedgerOrder(side, oid, deleted, amount, price) ==
    IF deleted
    THEN [None EXCEPT !.kind = "order", !.id = oid, !.deleted = TRUE]
    ELSE IF side = "buy"
         THEN [kind |-> "order", id |-> oid, deleted |-> FALSE,
               base |-> amount * price, baseSym |-> "BASE",
               quote |-> amount, quoteSym |-> "QUOTE", price |-> <<price, 1>>]
         ELSE [kind |-> "order", id |-> oid, deleted |-> FALSE,
               base |-> amount, baseSym |-> "QUOTE",
               quote |-> amount * price, quoteSym |-> "BASE",
               price |-> <<1, price>>]

\* get_original_order that gives the ledger's record also for a deleted
\* order.
get_original_order_NeverNone(order, return_none) == order

get_original_order(order, return_none) ==
    IF return_none /\ order.deleted THEN None ELSE order

calculate_order_data(order, amount, price) ==
    [order EXCEPT !.quote = amount, !.quoteSym = "QUOTE",
                  !.price = <<price, 1>>,
                  !.base = amount * price, !.baseSym = "BASE"]

\* Order.invert(): base and quote change places, the price is inverted.
invert(order) ==
    [order EXCEPT !.base = order.quote, !.baseSym = order.quoteSym,
                  !.quote = order.base, !.quoteSym = order.baseSym,
                  !.price = <<order.price[2], order.price[1]>>]

\* The end of buy that synthesizes the record but leaves recheck_orders.
BuyResult_NoRecheck(order, amount, price) ==
    IF order # None /\ order.deleted
    THEN [order |-> calculate_order_data(order, amount, price),
          recheck |-> FALSE]
    ELSE [order |-> order, recheck |-> FALSE]

\* The end of buy after the submission returned: the order buy returns and
\* whether it sets recheck_orders.
BuyResult(order, amount, price) ==
    IF order # None /\ order.deleted
    THEN [order |-> calculate_order_data(order, amount, price),
          recheck |-> TRUE]
    ELSE [order |-> order, recheck |-> FALSE]

\* The end of sell that returns the synthesized record without inverting it.
SellResult_NotInverted(order, amount, price) ==
    IF order # None /\ order.deleted
    THEN [order |-> calculate_order_data(order, amount, price),
          recheck |-> TRUE]
    ELSE [order |-> order, recheck |-> FALSE]

\* The end of sell: as buy, and the synthesized record is inverted.
SellResult(order, amount, price) ==
    IF order # None /\ order.deleted
    THEN [order |-> invert(calculate_order_data(order, amount, price)),
          recheck |-> TRUE]
    ELSE [order |-> order, recheck |-> FALSE]

\* ---------------------------------------------------------- cancel_orders
\* The calls self._cancel, self.cancel, self.cancel_all, self.get_order and
\* self.orders of the source are read as the methods _cancel_orders,
\* cancel_orders, cancel_all_orders, get_original_order and
\* get_own_market_orders that the same class defines.
\* A list of orders: entry i is the id i, or 0 for an order without 'id'.
OrderLists ==
    UNION {{l \in [1..n -> 0..n] : \A i \in 1..n : l[i] \in {0, i}} :
           n \in 0..MaxOrders}

\* self.orders, the open orders of the market: every one has its id.
OpenOrderLists == {[i \in 1..n |-> i] : n \in 0..MaxOrders}

\* [order['id'] for order in orders if 'id' in order]
ExtractIds(orders) == SelectSeq(orders, LAMBDA o : o # 0)

\* _cancel_orders that returns True after 'Unable to find Object'.
CancelResult_NotFoundSucceeds(f) ==
    IF f.status = "return"
    THEN [success |-> TRUE, raised |-> "none", cleared |-> 0]
    ELSE IF f.last \in UnhandledRPCError
         THEN IF f.last = "notfound"
              THEN [success |-> TRUE, raised |-> "none", cleared |-> 1]
              ELSE [success |-> TRUE, raised |-> "none", cleared |-> 0]
         ELSE IF f.last = "key"
              THEN [success |-> TRUE, raised |-> "none", cleared |-> 0]
              ELSE [success |-> TRUE, raised |-> f.last, cleared |-> 0]

\* _cancel_orders that raises an unknown UnhandledRPCError again.
CancelResult_RaisesUnknown(f) ==
    IF f.status = "return"
    THEN [success |-> TRUE, raised |-> "none", cleared |-> 0]
    ELSE IF f.last \in UnhandledRPCError
         THEN IF f.last = "notfound"
              THEN [success |-> FALSE, raised |-> "none", cleared |-> 1]
              ELSE [success |-> TRUE, raised |-> f.last, cleared |-> 0]
         ELSE IF f.last = "key"
              THEN [success |-> TRUE, raised |-> "none", cleared |-> 0]
              ELSE [success |-> TRUE, raised |-> f.last, cleared |-> 0]

\* _cancel_orders without the handler of MissingKeyError.
CancelResult_KeyPropagates(f) ==
    IF f.status = "return"
    THEN [success |-> TRUE, raised |-> "none", cleared |-> 0]
    ELSE IF f.last \in UnhandledRPCError
         THEN IF f.last = "notfound"
              THEN [success |-> FALSE, raised |-> "none", cleared |-> 1]
              ELSE [success |-> TRUE, raised |-> "none", cleared |-> 0]
         ELSE [success |-> TRUE, raised |-> f.last, cleared |-> 0]

\* _cancel_orders once its retry_action call ended with frame f: what it
\* returns (success), what it lets through (raised), and whether it cleared
\* the transaction buffer.
CancelResult(f) ==
    IF f.status = "return"
    THEN [success |-> TRUE, raised |-> "none", cleared |-> 0]
    ELSE IF f.last \in UnhandledRPCError
         THEN IF f.last = "notfound"
              THEN [success |-> FALSE, raised |-> "none", cleared |-> 1]
              ELSE [success |-> TRUE, raised |-> "none", cleared |-> 0]
         ELSE IF f.last = "key"
              THEN [success |-> TRUE, raised |-> "none", cleared |-> 0]
              ELSE [success |-> TRUE, raised |-> f.last, cleared |-> 0]

\* The fallback taken whatever the batched call returned.
Fallback_IgnoresSuccess(success, ids) == Len(ids) > 1

\* `if not success and len(orders) > 1` of cancel_orders
Fallback(success, ids) == ~success /\ Len(ids) > 1

\* ----------------------------------------------------------------- events
\* The events of the class (__events__) that the framework raises on the
\* worker, and the three a market notification is redirected to.
RaisedEvents == {"ontick", "onMarketUpdate", "onAccount"}

ClassifiedEvents == {"onOrderMatched", "onOrderPlaced", "onUpdateCallOrder"}

EventNames == RaisedEvents \cup ClassifiedEvents

\* The concrete kind of a notification: the three classes of bitshares.price
\* the classifier tests for, or anything else the node sends.
Kinds == {"FilledOrder", "Order", "UpdateCallOrder", "other"}

\* A handler: the callable passed to the constructor for event `name`
\* (owner "caller"), or a method of the worker or of the strategy.
Handler(owner, name) == [owner |-> owner, name |-> name]

NoHandler == Handler("", "")

Classifier == Handler("Worker", "_callbackPlaceFillOrders")

\* The state of the event machinery.  built: "new" before Worker.__init__,
\* "worker" after it, "strategy" after Strategy.__init__.  handlers[e]: the
\* targets of event e in registration order.  d: the kind of the
\* notification being delivered.  stack: the event calls in progress, the
\* innermost first; idx = 0 before the call has begun, else the next target.
\* log: the event calls begun ("fire") and the handlers invoked ("run").
EvNew ==
    [built |-> "new", pc |-> "idle",
     handlers |-> [e \in EventNames |-> <<>>],
     d |-> "none", stack |-> <<>>, log |-> <<>>]

\* The classifier that tests each class with its own `if`, an order that
\* was filled counting as an order too.
Classify_IfNotElif(d) ==
    CASE d = "FilledOrder" -> <<"onOrderMatched", "onOrderPlaced">>
      [] d = "Order" -> <<"onOrderPlaced">>
      [] d = "UpdateCallOrder" -> <<"onUpdateCallOrder">>
      [] OTHER -> <<>>

\* _callbackPlaceFillOrders(d): the events it calls, in order.
Classify(d) ==
    CASE d = "FilledOrder" -> <<"onOrderMatched">>
      [] d = "Order" -> <<"onOrderPlaced">>
      [] d = "UpdateCallOrder" -> <<"onUpdateCallOrder">>
      [] OTHER -> <<>>

Frame(e) == [event |-> e, idx |-> 0]

\* The event calls in progress once those that have invoked all their
\* targets have returned.
RECURSIVE Unwind(_, _)
Unwind(stack, handlers) ==
    IF stack = <<>> THEN stack
    ELSE IF stack[1].idx > Len(handlers[stack[1].event])
         THEN Unwind(Tail(stack), handlers)
         ELSE stack

\* -------------------------------------------------------------- valuation
\* The two assets of the market.
Symbols == {"BASE", "QUOTE"}

\* The assets an account can hold or sell: the market's two and any other.
Assets == Symbols \cup {"OTHER"}

\* An item of account['limit_orders'] as get_updated_limit_order leaves it:
\* the base leg is what is still for sale, in the asset the order sells.
LimitOrders ==
    [for_sale : 1..MaxForSale, symbol : Assets]

\* account['limit_orders']: the items by order id.
LimitOrderSets ==
    UNION {[S -> LimitOrders] : S \in SUBSET (1..MaxOpen)}

\* The order ids a caller passes as order_ids: None, one id as a str, or a
\* list of ids.
IdArgs ==
    {[kind |-> "None", ids |-> <<>>]}
        \cup {[kind |-> "str", ids |-> <<i>>] : i \in 1..MaxOpen}
        \cup {[kind |-> "list", ids |-> l] :
                 l \in UNION {[1..n -> 1..MaxOpen] : n \in 0..MaxOpen}}

\* The open orders a read of the account returned, by id.
OpenReads == {[i \in 1..n |-> i] : n \in 0..MaxOpen}

\* The account data before any valuation has read it.  op is the valuation
\* applied; limit_orders is the account's data on the ledger; balances,
\* all_orders, orders and latest are what the valuation read; return_asset,
\* order_id and order_ids are its arguments; value, order, amounts and raised
\* are what it gave.
NoAcct ==
    [pc |-> "idle", op |-> "none", limit_orders |-> <<>>,
     balances |-> [s \in Assets |-> 0],
     all_orders |-> <<>>, orders |-> <<>>,
     latest |-> [s \in Assets |-> 0],
     return_asset |-> "BASE", order_id |-> 0,
     order_ids |-> [kind |-> "None", ids |-> <<>>],
     value |-> 0, order |-> None, amounts |-> [quote |-> 0, base |-> 0],
     raised |-> "none"]

\* The states of the ledger a valuation can meet: the items of
\* account['limit_orders'] at the time of the lookups (an order that was
\* filled or cancelled is not among them).
AcctInputs ==
    {[NoAcct EXCEPT !.limit_orders = l] : l \in LimitOrderSets}

\* get_updated_order without the else clause of the loop: an id that is not
\* found gives the last item the loop looked at.
get_updated_order_LastItem(limit_orders, order_id) ==
    LET found == IF order_id \in DOMAIN limit_orders THEN order_id
                 ELSE IF DOMAIN limit_orders = {} THEN 0
                 ELSE CHOOSE j \in DOMAIN limit_orders :
                         \A k \in DOMAIN limit_orders : k <= j
    IN  IF found = 0 THEN None
        ELSE [None EXCEPT !.kind = "order", !.id = found,
                          !.base = limit_orders[found].for_sale,
                          !.baseSym = limit_orders[found].symbol]

\* get_updated_order(order_id): the Order of the item with that id, or None
\* when the loop over account['limit_orders'] ends without finding it.
get_updated_order(limit_orders, order_id) ==
    IF order_id \in DOMAIN limit_orders
    THEN [None EXCEPT !.kind = "order", !.id = order_id,
                      !.base = limit_orders[order_id].for_sale,
                      !.baseSym = limit_orders[order_id].symbol]
    ELSE None

\* convert_asset(from_value, from_asset, to_asset): from_value times the
\* latest price of the market from_asset/to_asset.
convert_asset(from_value, latest_price) == from_value * latest_price

\* The first loop of account_total_value, over self.balances.
RECURSIVE BalancesValue(_, _, _, _)
BalancesValue(balances, symbols, return_asset, latest) ==
    IF symbols = {} THEN 0
    ELSE LET s == CHOOSE x \in symbols : TRUE
             v == IF s # return_asset
                  THEN convert_asset(balances[s], latest[s])
                  ELSE balances[s]
         IN  v + BalancesValue(balances, symbols \ {s}, return_asset, latest)

\* The second loop of account_total_value, from the i-th open order on, with
\* total_value so far: `if not order` tests the open order, which is never
\* empty, so the updated order is subscripted whatever the lookup returned,
\* and subscripting None raises TypeError.
RECURSIVE OrdersValue(_, _, _)
OrdersValue(a, i, total_value) ==
    IF i > Len(a.all_orders)
    THEN [value |-> total_value, raised |-> "none"]
    ELSE LET updated_order == get_updated_order(a.limit_orders,
                                                a.all_orders[i])
         IN  IF updated_order = None
             THEN [value |-> 0, raised |-> "TypeError"]
             ELSE IF updated_order.baseSym = a.return_asset
             THEN OrdersValue(a, i + 1, total_value + updated_order.base)
             ELSE OrdersValue(a, i + 1,
                              total_value
                                + convert_asset(updated_order.base,
                                      a.latest[updated_order.baseSym]))

account_total_value(a) ==
    OrdersValue(a, 1,
                BalancesValue(a.balances, Assets, a.return_asset, a.latest))

\* The head of get_allocated_assets: None and the empty list become [],
\* a str becomes the list of that one id.
IdsOf(order_ids) ==
    IF order_ids.kind = "None" \/ order_ids.ids = <<>> THEN <<>>
    ELSE IF order_ids.kind = "str" THEN <<order_ids.ids[1]>>
    ELSE order_ids.ids

\* The loop of get_allocated_assets in which every order that does not
\* sell the quote asset counts as base.
RECURSIVE Allocated_ElseIsBase(_, _, _, _)
Allocated_ElseIsBase(limit_orders, ids, i, sums) ==
    IF i > Len(ids) THEN sums
    ELSE LET order == get_updated_order(limit_orders, ids[i])
         IN  IF order = None
             THEN Allocated_ElseIsBase(limit_orders, ids, i + 1, sums)
             ELSE IF order.baseSym = "QUOTE"
             THEN Allocated_ElseIsBase(limit_orders, ids, i + 1,
                      [sums EXCEPT !.quote = @ + order.base])
             ELSE Allocated_ElseIsBase(limit_orders, ids, i + 1,
                      [sums EXCEPT !.base = @ + order.base])

\* The loop of get_allocated_assets from the i-th id on, with the sums so
\* far.
RECURSIVE Allocated(_, _, _, _)
Allocated(limit_orders, ids, i, sums) ==
    IF i > Len(ids) THEN sums
    ELSE LET order == get_updated_order(limit_orders, ids[i])
         IN  IF order = None
             THEN Allocated(limit_orders, ids, i + 1, sums)
             ELSE IF order.baseSym = "QUOTE"
             THEN Allocated(limit_orders, ids, i + 1,
                            [sums EXCEPT !.quote = @ + order.base])
             ELSE IF order.baseSym = "BASE"
             THEN Allocated(limit_orders, ids, i + 1,
                            [sums EXCEPT !.base = @ + order.base])
             ELSE Allocated(limit_orders, ids, i + 1, sums)

get_allocated_assets(limit_orders, order_ids) ==
    Allocated(limit_orders, IdsOf(order_ids), 1, [quote |-> 0, base |-> 0])

\* self.orders_balance, which count_asset calls and strategies/base.py does
\* not define: the aggregation of the funds locked in the given orders, without
\* the free balance.
orders_balance(limit_orders, order_ids) ==
    get_allocated_assets(limit_orders, order_ids)

\* count_asset in which an absent id list counts no order.
count_asset_NoDefault(balances, order_ids, orders, limit_orders) ==
    LET free == [quote |-> balances["QUOTE"], base |-> balances["BASE"]]
    IN  IF order_ids.ids # <<>>
        THEN LET locked == orders_balance(limit_orders, order_ids)
             IN  [quote |-> free.quote + locked.quote,
                  base |-> free.base + locked.base]
        ELSE free

\* count_asset(order_ids) on an account with the given balances and limit
\* orders, whose open orders of the market read as `orders` (their ids).
count_asset(balances, order_ids, orders, limit_orders) ==
    LET free == [quote |-> balances["QUOTE"], base |-> balances["BASE"]]
        ids == IF order_ids.kind = "None"
               THEN [kind |-> "list", ids |-> orders]
               ELSE order_ids
    IN  IF ids.ids # <<>>
        THEN LET locked == orders_balance(limit_orders, ids)
             IN  [quote |-> free.quote + locked.quote,
                  base |-> free.base + locked.base]
        ELSE free

\* ---------------------------------------------------------- order queries
\* The orders a query filters and sorts: a price and the symbol of the
\* asset of the base leg; the id of an order is its place in the list it
\* came in.
PricedLists(n) ==
    UNION {{[i \in 1..k |-> [id |-> i, price |-> f[i].price,
                             baseSym |-> f[i].baseSym]] :
               f \in [1..k -> [price : 1..MaxPrice, baseSym : Symbols]]} :
           k \in 0..n}

\* The `sort` arguments: strings, and NoSort for an argument of None.
Directions == {"ASC", "DESC", "asc", "Desc", "UP"}
NoSort == "None"
SortArgs == Directions \cup {NoSort}

\* str.upper on the directions.
Upper(sort) ==
    CASE sort = "asc" -> "ASC"
      [] sort = "Desc" -> "DESC"
      [] OTHER -> sort

List(items) == [kind |-> "list", items |-> items]
Unset == [kind |-> "unset"]

NoOrd == [given |-> <<>>, orders |-> <<>>,
          sort |-> NoSort, sort_buy |-> NoSort, sort_sell |-> NoSort,
          sorted |-> Unset, buy_orders |-> Unset, sell_orders |-> Unset]

\* A list to query and, for the query that is handed no order, the open
\* orders of the worker's market that self.orders gives.
OrdInputs ==
    {[NoOrd EXCEPT !.given = l] : l \in PricedLists(MaxGiven)}
        \cup {[NoOrd EXCEPT !.orders = l] : l \in PricedLists(MaxRead)}

\* list.sort is stable, also with reverse=True: an order goes behind the
\* orders placed before it that do not have to come after it.
InsertSorted(items, order, reverse) ==
    LET ahead == {i \in 1..Len(items) :
                     IF reverse THEN items[i].price >= order.price
                     ELSE items[i].price <= order.price}
        k == Cardinality(ahead)
    IN  SubSeq(items, 1, k) \o <<order>> \o SubSeq(items, k + 1, Len(items))

RECURSIVE sorted(_, _, _)
sorted(orders, n, reverse) ==
    IF n = 0 THEN <<>>
    ELSE InsertSorted(sorted(orders, n - 1, reverse), orders[n], reverse)

\* sort_orders in which an unknown direction sorts as DESC, the default of
\* the parameter.
sort_orders_DefaultDesc(orders, sort) ==
    IF Upper(sort) = "ASC" THEN List(sorted(orders, Len(orders), FALSE))
    ELSE List(sorted(orders, Len(orders), TRUE))

sort_orders(orders, sort) ==
    IF Upper(sort) = "ASC" THEN List(sorted(orders, Len(orders), FALSE))
    ELSE IF Upper(sort) = "DESC" THEN List(sorted(orders, Len(orders), TRUE))
    ELSE None

\* is_sell_order with the test turned round.
is_sell_order_SameSymbol(order) == order.baseSym = "BASE"

\* is_sell_order(order) in the market whose base asset is BASE.
is_sell_order(order) == order.baseSym # "BASE"

\* get_own_buy_orders(sort, orders); `read` is what self.orders gives when
\* the method reads it.
get_own_buy_orders(sort, orders, read) ==
    LET from == IF orders = <<>> THEN read ELSE orders
        buy_orders == SelectSeq(from, LAMBDA order : ~is_sell_order(order))
    IN  IF sort # NoSort THEN sort_orders(buy_orders, sort)
        ELSE List(buy_orders)

get_own_sell_orders(sort, orders, read) ==
    LET from == IF orders = <<>> THEN read ELSE orders
        sell_orders == SelectSeq(from, LAMBDA order : is_sell_order(order))
    IN  IF sort # NoSort THEN sort_orders(sell_orders, sort)
        ELSE List(sell_orders)

\* ------------------------------------------------- Support Price strategy
\* The notifications the strategy has a handler for.
StrategyEvents == {"ontick", "onMarketUpdate", "onAccount"}

\* What one run of maintain_strategy reads from the node: the price of the
\* lowest sell order of the market (get_lowest_market_sell_order), the
\* price get_market_sell_price gives, and whether the worker has a buy order
\* (get_highest_own_buy_order).
Observations ==
    [ask : 1..MaxPrice, bid : 0..MaxPrice, own : BOOLEAN]

NoObservation == [ask |-> 0, bid |-> 0, own |-> FALSE]

\* How a call into the engine made by the strategy ends.
CallEnds == {"ok", "raise"}

\* How place_market_buy_order ends: the order is placed, it is refused
\* because of its size or the balance, or the remote call raises.
PlaceEnds == {"placed", "refused", "raise"}

\* The strategy after Strategy.__init__.  counter and last_market_ask_price
\* are the attributes of the strategy.  The rest is what the last
\* notification did: the event, whether maintain_strategy ran, what it read
\* (seen) and what the run before it read (prev), the cancel_all_orders and
\* place_market_buy_order calls it made, what the handler raised, and the
\* counter and the fault flag as the handler found them; ticks counts the
\* ticks and failed tells whether maintain_strategy has raised in one.
StratNew ==
    [pc |-> "idle", counter |-> 0, last_market_ask_price |-> 0,
     event |-> "none", ran |-> FALSE, seen |-> NoObservation,
     prev |-> NoObservation, cancelled |-> 0, placed |-> 0,
     raised |-> "none", before |-> 0, was |-> FALSE,
     ticks |-> 0, failed |-> FALSE]

\* place_market_buy_order, which strategies/base.py does not define: a buy
\* that is refused sets the fault flag.
place_market_buy_order(flag, end) ==
    [disabled |-> IF end = "refused" THEN TRUE ELSE flag,
     placed |-> IF end = "raise" THEN 0 ELSE 1,
     raised |-> IF end = "raise" THEN "RemoteError" ELSE "none"]

\* One run of maintain_strategy(): obs is what it reads, cancel and place
\* are how its calls end.  It gives the strategy's attributes, the fault
\* flag, the calls made and the error raised.  The branch that has no buy
\* order stops at `self.balance(base)`, where the name `base` is not
\* defined.
maintain_strategy(s, flag, obs, cancel, place) ==
    LET none == [last_market_ask_price |-> s.last_market_ask_price,
                 disabled |-> flag, cancelled |-> 0, placed |-> 0,
                 raised |-> "none"]
    IN  IF ~obs.own
        THEN [none EXCEPT !.raised = "NameError"]
        ELSE IF s.last_market_ask_price = obs.bid
        THEN none
        ELSE IF cancel = "raise"
        THEN [none EXCEPT !.cancelled = 1, !.raised = "RemoteError"]
        ELSE LET p == place_market_buy_order(flag, place)
             IN  [none EXCEPT !.cancelled = 1, !.placed = p.placed,
                              !.disabled = p.disabled, !.raised = p.raised]

\* Strategy.error that leaves the flag alone.
error_KeepsFlag(flag) == flag

\* Strategy.error(*args): self.disabled = False.
error(flag) == FALSE

\* tick in which the counter goes on before maintain_strategy runs.
CounterAfter_CountsFirst(counter, err) == counter + 1

\* The counter after tick(d): `self.counter += 1` is reached when
\* maintain_strategy did not run or returned.
CounterAfter(counter, err) ==
    IF err # "none" THEN counter ELSE counter + 1

\* `if not (self.counter or 0) % 3`
Due(counter) == counter % 3 = 0

Init ==
    /\ disabled = FALSE
    /\ recheck_orders = FALSE
    /\ savedOrders = {}
    /\ stored = {}
    /\ op = "idle"
    /\ pc = "idle"
    /\ args = NoArgs
    /\ rt = RtInit
    /\ cf = CfInit
    /\ ret = None
    /\ raised = "none"
    /\ ev = EvNew
    /\ acct = NoAcct
    /\ ord = NoOrd
    /\ strat = StratNew

\* retry_action(action) called on its own.
RetryActionCall ==
    /\ pc = "idle"
    /\ op' = "retry_action"
    /\ pc' = "call"
    /\ args' = NoArgs
    /\ rt' = RtInit
    /\ cf' = CfInit
    /\ ret' = None
    /\ raised' = "none"
    /\ UNCHANGED <<disabled, recheck_orders, savedOrders, stored>>
    /\ UNCHANGED <<ev, acct, ord, strat>>

RetryActionAttempt ==
    /\ pc = "call"
    /\ op = "retry_action"
    /\ \E outcome \in Outcome, value \in OrderIds :
          LET f == RetryStep(rt, outcome)
          IN  /\ rt' = f
              /\ pc' = IF f.status = "again" THEN "call" ELSE "done"
              /\ ret' = IF f.status = "return"
                        THEN [None EXCEPT !.kind = "value", !.id = value]
                        ELSE None
              /\ raised' = IF f.status = "raise" THEN outcome ELSE "none"
    /\ UNCHANGED <<disabled, recheck_orders, savedOrders, stored, op, args, cf>>
    /\ UNCHANGED <<ev, acct, ord, strat>>


\* Worker.__init__ run again by the framework: the external reset.
Reset ==
    /\ pc = "idle"
    /\ op' = "reset"
    /\ disabled' = FALSE
    /\ recheck_orders' = FALSE
    /\ pc' = "done"
    /\ args' = NoArgs
    /\ rt' = RtInit
    /\ cf' = CfInit
    /\ ret' = None
    /\ raised' = "none"
    /\ UNCHANGED <<savedOrders, stored>>
    /\ UNCHANGED <<ev, acct, ord, strat>>

\* A strategy saves an order it placed (Storage.save_order).
SaveOrder ==
    /\ pc = "idle"
    /\ \E id \in OrderIds : savedOrders' = savedOrders \cup {id}
    /\ op' = "save_order"
    /\ pc' = "done"
    /\ UNCHANGED <<disabled, recheck_orders, stored, args, rt, cf, ret,
                   raised>>
    /\ UNCHANGED <<ev, acct, ord, strat>>

\* A strategy persists a value: worker["key"] = value.
StoreSet ==
    /\ pc = "idle"
    /\ \E k \in StorageKeys : stored' = stored \cup {k}
    /\ op' = "setitem"
    /\ pc' = "done"
    /\ UNCHANGED <<disabled, recheck_orders, savedOrders, args, rt, cf, ret,
                   raised>>
    /\ UNCHANGED <<ev, acct, ord, strat>>

\* buy(amount, price, return_none) up to the submission.
Buy ==
    /\ pc = "idle"
    /\ \E amount \in 0..MaxAmount, price \in 0..MaxPrice,
          balance \in 0..MaxBalance, precision \in 0..MaxPrecision,
          return_none \in BOOLEAN :
          LET a == [NoArgs EXCEPT !.amount = amount, !.price = price,
                                  !.balance = balance,
                                  !.precision = precision,
                                  !.return_none = return_none]
              c == PlaceCheck(BuyNeeded(a), balance)
          IN  /\ args' = [a EXCEPT !.balanceRead = c.balanceRead]
              /\ pc' = IF c.verdict = "submit" THEN "call" ELSE "done"
              /\ disabled' = DisabledAfter(c.verdict, disabled)
    /\ op' = "buy"
    /\ rt' = RtInit
    /\ cf' = CfInit
    /\ ret' = None
    /\ raised' = "none"
    /\ UNCHANGED <<recheck_orders, savedOrders, stored>>
    /\ UNCHANGED <<ev, acct, ord, strat>>

\* sell(amount, price, return_none) up to the submission.
Sell ==
    /\ pc = "idle"
    /\ \E amount \in 0..MaxAmount, price \in 0..MaxPrice,
          balance \in 0..MaxBalance, precision \in 0..MaxPrecision,
          return_none \in BOOLEAN :
          LET a == [NoArgs EXCEPT !.amount = amount, !.price = price,
                                  !.balance = balance,
                                  !.precision = precision,
                                  !.return_none = return_none]
              c == PlaceCheck(SellNeeded(a), balance)
          IN  /\ args' = [a EXCEPT !.balanceRead = c.balanceRead]
              /\ pc' = IF c.verdict = "submit" THEN "call" ELSE "done"
              /\ disabled' = DisabledAfter(c.verdict, disabled)
    /\ op' = "sell"
    /\ rt' = RtInit
    /\ cf' = CfInit
    /\ ret' = None
    /\ raised' = "none"
    /\ UNCHANGED <<recheck_orders, savedOrders, stored>>
    /\ UNCHANGED <<ev, acct, ord, strat>>

\* One invocation of market.buy / market.sell inside retry_action and, when
\* it returns, the rest of buy / sell: the lookup of the order and the
\* synthesized record of an order that is already gone.
PlaceAttempt ==
    /\ pc = "call"
    /\ op \in {"buy", "sell"}
    /\ \E outcome \in Outcome, oid \in OrderIds, deleted \in BOOLEAN :
          LET f == RetryStep(rt, outcome)
              order == get_original_order(
                           LedgerOrder(op, oid, deleted, args.amount,
                                       args.price),
                           args.return_none)
              res == IF op = "buy"
                     THEN BuyResult(order, args.amount, args.price)
                     ELSE SellResult(order, args.amount, args.price)
          IN  /\ rt' = f
              /\ pc' = IF f.status = "again" THEN "call" ELSE "done"
              /\ ret' = IF f.status = "return" THEN res.order ELSE None
              /\ raised' = IF f.status = "raise" THEN outcome ELSE "none"
              /\ recheck_orders' =
                    IF f.status = "return" /\ res.recheck
                    THEN TRUE ELSE recheck_orders
    /\ UNCHANGED <<disabled, savedOrders, stored, op, args, cf>>
    /\ UNCHANGED <<ev, acct, ord, strat>>

\* Storage.clear_orders(): the worker's saved orders are deleted.
clear_orders(saved) == {}

\* Storage.clear(): the worker's persisted keys are deleted.
clear(keys) == {}

\* The start of cancel_orders(orders): the ids are extracted and the batched
\* _cancel call begins (also when no id is left).
StartCancel(name, tested, orders) ==
    /\ op' = name
    /\ pc' = "call"
    /\ args' = [NoArgs EXCEPT !.orders = orders, !.tested = tested]
    /\ rt' = RtInit
    /\ cf' = [CfInit EXCEPT !.ids = ExtractIds(orders)]
    /\ ret' = None
    /\ raised' = "none"

\* An operation that ends at once, without a remote call.
EndAtOnce(name, tested) ==
    /\ op' = name
    /\ pc' = "done"
    /\ args' = [NoArgs EXCEPT !.tested = tested]
    /\ rt' = RtInit
    /\ cf' = CfInit
    /\ ret' = None
    /\ raised' = "none"

CancelOrders ==
    /\ pc = "idle"
    /\ \E orders \in OrderLists : StartCancel("cancel_orders", <<>>, orders)
    /\ UNCHANGED <<disabled, recheck_orders, savedOrders, stored>>
    /\ UNCHANGED <<ev, acct, ord, strat>>

\* cancel_all_orders that calls cancel_orders whatever self.orders holds.
CancelAllOrders_NoTest ==
    /\ pc = "idle"
    /\ \E tested \in OpenOrderLists, open \in OpenOrderLists :
          StartCancel("cancel_all_orders", tested, open)
    /\ UNCHANGED <<disabled, recheck_orders, savedOrders, stored>>
    /\ UNCHANGED <<ev, acct, ord, strat>>

\* cancel_all_orders(): `if self.orders: self.cancel(self.orders)`.  The
\* property self.orders refreshes the account each time it is read, so the
\* list tested and the list passed on are two reads of the ledger.
CancelAllOrders ==
    /\ pc = "idle"
    /\ \E tested \in OpenOrderLists, open \in OpenOrderLists :
          IF tested # <<>>
          THEN StartCancel("cancel_all_orders", tested, open)
          ELSE EndAtOnce("cancel_all_orders", tested)
    /\ UNCHANGED <<disabled, recheck_orders, savedOrders, stored>>
    /\ UNCHANGED <<ev, acct, ord, strat>>

\* pause_worker that clears the saved orders before it cancels.
PauseWorker_ClearsFirst ==
    /\ pc = "idle"
    /\ savedOrders' = clear_orders(savedOrders)
    /\ \E tested \in OpenOrderLists, open \in OpenOrderLists :
          IF tested # <<>>
          THEN StartCancel("pause_worker", tested, open)
          ELSE EndAtOnce("pause_worker", tested)
    /\ UNCHANGED <<disabled, recheck_orders, stored>>
    /\ UNCHANGED <<ev, acct, ord, strat>>

\* pause_worker(): cancel_all_orders(), then clear_orders().
PauseWorker ==
    /\ pc = "idle"
    /\ \E tested \in OpenOrderLists, open \in OpenOrderLists :
          IF tested # <<>>
          THEN StartCancel("pause_worker", tested, open)
               /\ savedOrders' = savedOrders
          ELSE EndAtOnce("pause_worker", tested)
               /\ savedOrders' = clear_orders(savedOrders)
    /\ UNCHANGED <<disabled, recheck_orders, stored>>
    /\ UNCHANGED <<ev, acct, ord, strat>>

\* purge that clears the persisted keys before it cancels.
Purge_ClearsStorageFirst ==
    /\ pc = "idle"
    /\ savedOrders' = clear_orders(savedOrders)
    /\ stored' = clear(stored)
    /\ \E tested \in OpenOrderLists, open \in OpenOrderLists :
          IF tested # <<>>
          THEN StartCancel("purge", tested, open)
          ELSE EndAtOnce("purge", tested)
    /\ UNCHANGED <<disabled, recheck_orders>>
    /\ UNCHANGED <<ev, acct, ord, strat>>

\* purge(): clear_orders(), cancel_all_orders(), clear().
Purge ==
    /\ pc = "idle"
    /\ savedOrders' = clear_orders(savedOrders)
    /\ \E tested \in OpenOrderLists, open \in OpenOrderLists :
          IF tested # <<>>
          THEN StartCancel("purge", tested, open)
               /\ stored' = stored
          ELSE EndAtOnce("purge", tested)
               /\ stored' = clear(stored)
    /\ UNCHANGED <<disabled, recheck_orders>>
    /\ UNCHANGED <<ev, acct, ord, strat>>

\* One invocation of bitshares.cancel inside retry_action inside _cancel and,
\* when retry_action ends, the rest of _cancel, of cancel_orders and of the
\* operation that called it.
CancelAttempt ==
    /\ pc = "call"
    /\ op \in CancelOps
    /\ \E outcome \in Outcome :
          LET f == RetryStep(rt, outcome)
              r == CancelResult(f)
              g == [f EXCEPT !.clears = @ + r.cleared]
              c == [cf EXCEPT !.batch = IF cf.idx # 0 THEN @
                                        ELSE IF f.status = "return" THEN "ok"
                                        ELSE f.last]
              more == IF cf.idx = 0 THEN Fallback(r.success, cf.ids)
                      ELSE cf.idx < Len(cf.ids)
          IN  IF f.status = "again"
              THEN /\ rt' = f
                   /\ UNCHANGED <<pc, cf, raised, savedOrders, stored>>
              ELSE IF r.raised # "none"
              THEN /\ rt' = g
                   /\ cf' = c
                   /\ pc' = "done"
                   /\ raised' = r.raised
                   /\ UNCHANGED <<savedOrders, stored>>
              ELSE IF more
              THEN /\ rt' = RtInit
                   /\ cf' = [c EXCEPT !.idx = @ + 1,
                                      !.singles = Append(@, cf.ids[cf.idx + 1])]
                   /\ UNCHANGED <<pc, raised, savedOrders, stored>>
              ELSE /\ rt' = g
                   /\ cf' = c
                   /\ pc' = "done"
                   /\ savedOrders' = IF op = "pause_worker"
                                     THEN clear_orders(savedOrders)
                                     ELSE savedOrders
                   /\ stored' = IF op = "purge" THEN clear(stored)
                                ELSE stored
                   /\ UNCHANGED raised
    /\ UNCHANGED <<disabled, recheck_orders, op, args, ret>>
    /\ UNCHANGED <<ev, acct, ord, strat>>

\* The operation has returned or raised; control is back in the framework,
\* which catches what was raised, and the next notification can come.
Return ==
    /\ pc = "done"
    /\ pc' = "idle"
    /\ op' = "idle"
    /\ args' = NoArgs
    /\ rt' = RtInit
    /\ cf' = CfInit
    /\ ret' = None
    /\ raised' = "none"
    /\ UNCHANGED <<disabled, recheck_orders, savedOrders, stored>>
    /\ UNCHANGED <<ev, acct, ord, strat>>

Next ==
    \/ Return
    \/ Reset
    \/ SaveOrder
    \/ StoreSet
    \/ RetryActionCall
    \/ RetryActionAttempt
    \/ Buy
    \/ Sell
    \/ PlaceAttempt
    \/ CancelOrders
    \/ CancelAllOrders
    \/ PauseWorker
    \/ Purge
    \/ CancelAttempt

Spec == Init /\ [][Next]_vars

\* ------------------------------------------------------- event dispatch
\* Worker.__init__: the handlers passed as arguments are registered, then
\* the classifier on onMarketUpdate.
WorkerInit ==
    /\ ev.built = "new"
    /\ \E passed \in SUBSET EventNames :
          ev' = [ev EXCEPT
                   !.built = "worker",
                   !.handlers =
                       [e \in EventNames |->
                           (IF e \in passed THEN <<Handler("caller", e)>>
                            ELSE <<>>)
                           \o (IF e = "onMarketUpdate" THEN <<Classifier>>
                               ELSE <<>>)]]
    /\ UNCHANGED <<disabled, recheck_orders, savedOrders, stored, op, pc, args,
                   rt, cf, ret, raised, acct, ord, strat>>

\* Strategy.__init__ after super().__init__: the strategy's callbacks.
StrategyInit ==
    /\ ev.built = "worker"
    /\ ev.pc = "idle"
    /\ ev' = [ev EXCEPT
                !.built = "strategy",
                !.handlers =
                    [@ EXCEPT
                       !["onMarketUpdate"] =
                           Append(@, Handler("Strategy", "maintain_strategy")),
                       !["onAccount"] =
                           Append(@, Handler("Strategy", "maintain_strategy")),
                       !["ontick"] = Append(@, Handler("Strategy", "tick"))]]
    /\ UNCHANGED <<disabled, recheck_orders, savedOrders, stored, op, pc, args,
                   rt, cf, ret, raised, acct, ord, strat>>

\* The framework raises an event on the worker with a notification d.
Notify ==
    /\ ev.built # "new"
    /\ ev.pc = "idle"
    /\ \E e \in RaisedEvents, d \in Kinds :
          ev' = [ev EXCEPT !.pc = "dispatch", !.d = d,
                           !.stack = <<Frame(e)>>, !.log = <<>>]
    /\ UNCHANGED <<disabled, recheck_orders, savedOrders, stored, op, pc, args,
                   rt, cf, ret, raised, acct, ord, strat>>

\* One step of Events' call of an event: the call begins, or its next target
\* is invoked with d.  The classifier calls the events Classify names, each
\* of which runs to its end before the classifier goes on.
Deliver ==
    /\ ev.pc = "dispatch"
    /\ LET top == ev.stack[1]
           rest == Tail(ev.stack)
           h == ev.handlers[top.event][top.idx]
           next == [top EXCEPT !.idx = @ + 1]
           called == IF top.idx > 0 /\ h = Classifier
                     THEN Classify(ev.d) ELSE <<>>
           stack == Unwind([i \in 1..Len(called) |-> Frame(called[i])]
                               \o <<next>> \o rest,
                           ev.handlers)
           entry == IF top.idx = 0
                    THEN [act |-> "fire", event |-> top.event,
                          handler |-> NoHandler]
                    ELSE [act |-> "run", event |-> top.event, handler |-> h]
       IN  ev' = [ev EXCEPT !.log = Append(@, entry),
                            !.stack = stack,
                            !.pc = IF stack = <<>> THEN "done"
                                   ELSE "dispatch"]
    /\ UNCHANGED <<disabled, recheck_orders, savedOrders, stored, op, pc, args,
                   rt, cf, ret, raised, acct, ord, strat>>

\* The event call has returned to the framework.
Delivered ==
    /\ ev.pc = "done"
    /\ ev' = [ev EXCEPT !.pc = "idle", !.d = "none", !.log = <<>>]
    /\ UNCHANGED <<disabled, recheck_orders, savedOrders, stored, op, pc, args,
                   rt, cf, ret, raised, acct, ord, strat>>

EvNext ==
    \/ WorkerInit
    \/ StrategyInit
    \/ Notify
    \/ Deliver
    \/ Delivered

EvSpec == Init /\ [][EvNext]_vars

\* -------------------------------------------------------------- valuation
\* The worker as constructed, with the account in any state of the ledger.
AcctInit ==
    /\ disabled = FALSE
    /\ recheck_orders = FALSE
    /\ savedOrders = {}
    /\ stored = {}
    /\ op = "idle"
    /\ pc = "idle"
    /\ args = NoArgs
    /\ rt = RtInit
    /\ cf = CfInit
    /\ ret = None
    /\ raised = "none"
    /\ ev = EvNew
    /\ acct \in AcctInputs
    /\ ord = NoOrd
    /\ strat = StratNew

\* account_total_value(return_asset): the balances, the open orders of
\* self.all_orders and the latest prices are read from the node.
AccountTotalValue ==
    /\ acct.pc = "idle"
    /\ \E r \in Symbols, b \in [Assets -> 0..MaxHeld], o \in OpenReads,
          p \in [Assets -> 0..MaxPrice] :
          /\ p[r] = 0
          /\ LET a == [acct EXCEPT !.op = "account_total_value",
                                   !.return_asset = r, !.balances = b,
                                   !.all_orders = o, !.latest = p]
                 v == account_total_value(a)
             IN  acct' = [a EXCEPT !.pc = "done", !.value = v.value,
                                   !.raised = v.raised]
    /\ UNCHANGED <<disabled, recheck_orders, savedOrders, stored, op, pc, args,
                   rt, cf, ret, raised, ev, ord, strat>>

\* get_updated_order(order_id), for an id of the account or any other.
GetUpdatedOrder ==
    /\ acct.pc = "idle"
    /\ \E i \in 1..(MaxOpen + 1) :
          acct' = [acct EXCEPT !.op = "get_updated_order", !.pc = "done",
                               !.order_id = i,
                               !.order = get_updated_order(acct.limit_orders,
                                                           i)]
    /\ UNCHANGED <<disabled, recheck_orders, savedOrders, stored, op, pc, args,
                   rt, cf, ret, raised, ev, ord, strat>>

\* get_allocated_assets(order_ids), on an account with any balances.
GetAllocatedAssets ==
    /\ acct.pc = "idle"
    /\ \E ids \in IdArgs, b \in [Assets -> 0..MaxHeld] :
          acct' = [acct EXCEPT
                     !.op = "get_allocated_assets", !.pc = "done",
                     !.order_ids = ids, !.balances = b,
                     !.amounts = get_allocated_assets(acct.limit_orders,
                                                      ids)]
    /\ UNCHANGED <<disabled, recheck_orders, savedOrders, stored, op, pc, args,
                   rt, cf, ret, raised, ev, ord, strat>>

\* count_asset(order_ids), on an account with any balances; self.orders is
\* read, as any list, only when no ids are given.
CountAsset ==
    /\ acct.pc = "idle"
    /\ \E ids \in IdArgs, b \in [Assets -> 0..MaxHeld] :
       \E o \in (IF ids.kind = "None" THEN OpenReads ELSE {<<>>}) :
          acct' = [acct EXCEPT
                     !.op = "count_asset", !.pc = "done",
                     !.order_ids = ids, !.balances = b, !.orders = o,
                     !.amounts = count_asset(b, ids, o, acct.limit_orders)]
    /\ UNCHANGED <<disabled, recheck_orders, savedOrders, stored, op, pc, args,
                   rt, cf, ret, raised, ev, ord, strat>>

AcctNext ==
    \/ AccountTotalValue
    \/ GetUpdatedOrder
    \/ GetAllocatedAssets
    \/ CountAsset

AcctSpec == AcctInit /\ [][AcctNext]_vars

\* ---------------------------------------------------------- order queries
\* The worker as constructed, any list of orders to query and any open
\* orders of the market.
OrdInit ==
    /\ disabled = FALSE
    /\ recheck_orders = FALSE
    /\ savedOrders = {}
    /\ stored = {}
    /\ op = "idle"
    /\ pc = "idle"
    /\ args = NoArgs
    /\ rt = RtInit
    /\ cf = CfInit
    /\ ret = None
    /\ raised = "none"
    /\ ev = EvNew
    /\ acct = NoAcct
    /\ strat = StratNew
    /\ ord \in OrdInputs

\* sort_orders(orders, sort) on the list.
SortOrders ==
    /\ \E sort \in Directions :
          ord' = [ord EXCEPT !.sort = sort,
                             !.sorted = sort_orders(ord.given, sort)]
    /\ UNCHANGED <<disabled, recheck_orders, savedOrders, stored, op, pc, args,
                   rt, cf, ret, raised, ev, acct, strat>>

\* get_own_buy_orders(sort, orders) on the list.
GetOwnBuyOrders ==
    /\ \E sort \in SortArgs :
          ord' = [ord EXCEPT
                    !.sort_buy = sort,
                    !.buy_orders = get_own_buy_orders(sort, ord.given,
                                                      ord.orders)]
    /\ UNCHANGED <<disabled, recheck_orders, savedOrders, stored, op, pc, args,
                   rt, cf, ret, raised, ev, acct, strat>>

\* get_own_sell_orders(sort, orders) on the list.
GetOwnSellOrders ==
    /\ \E sort \in SortArgs :
          ord' = [ord EXCEPT
                    !.sort_sell = sort,
                    !.sell_orders = get_own_sell_orders(sort, ord.given,
                                                        ord.orders)]
    /\ UNCHANGED <<disabled, recheck_orders, savedOrders, stored, op, pc, args,
                   rt, cf, ret, raised, ev, acct, strat>>

OrdNext ==
    \/ SortOrders
    \/ GetOwnBuyOrders
    \/ GetOwnSellOrders

OrdSpec == OrdInit /\ [][OrdNext]_vars

\* ------------------------------------------------- Support Price strategy
\* What the handler of a notification leaves behind: the run of
\* maintain_strategy m (or none), and the error handler of the event, which
\* the framework calls when the handler raised.
Handled(e, ran, obs, m, counter) ==
    /\ strat' = [strat EXCEPT
                   !.pc = "done", !.event = e, !.ran = ran,
                   !.seen = IF ran THEN obs ELSE strat.seen,
                   !.prev = IF ran THEN strat.seen ELSE strat.prev,
                   !.last_market_ask_price = m.last_market_ask_price,
                   !.cancelled = m.cancelled, !.placed = m.placed,
                   !.raised = m.raised,
                   !.before = strat.counter, !.was = disabled,
                   !.counter = counter,
                   !.ticks = IF e = "ontick" THEN @ + 1 ELSE @,
                   !.failed = @ \/ (e = "ontick" /\ m.raised # "none")]
    /\ disabled' = IF m.raised # "none" THEN error(m.disabled)
                   ELSE m.disabled

\* The framework raises ontick: tick(d) runs maintain_strategy when the
\* counter says so, and then counts.
Tick ==
    /\ strat.pc = "idle"
    /\ strat.ticks < MaxTicks
    /\ \E obs \in Observations, cancel \in CallEnds, place \in PlaceEnds :
          LET idle == [last_market_ask_price |-> strat.last_market_ask_price,
                       disabled |-> disabled, cancelled |-> 0, placed |-> 0,
                       raised |-> "none"]
              m == IF Due(strat.counter)
                   THEN maintain_strategy(strat, disabled, obs, cancel, place)
                   ELSE idle
          IN  Handled("ontick", Due(strat.counter), obs, m,
                      CounterAfter(strat.counter, m.raised))
    /\ UNCHANGED <<recheck_orders, savedOrders, stored, op, pc, args, rt, cf,
                   ret, raised, ev, acct, ord>>

\* The framework raises onMarketUpdate or onAccount with a notification:
\* the handler is maintain_strategy, which takes no notification, so the
\* call raises TypeError before the method begins.
MarketOrAccountUpdate ==
    /\ strat.pc = "idle"
    /\ \E e \in {"onMarketUpdate", "onAccount"} :
          Handled(e, FALSE, NoObservation,
                  [last_market_ask_price |-> strat.last_market_ask_price,
                   disabled |-> disabled, cancelled |-> 0, placed |-> 0,
                   raised |-> "TypeError"],
                  strat.counter)
    /\ UNCHANGED <<recheck_orders, savedOrders, stored, op, pc, args, rt, cf,
                   ret, raised, ev, acct, ord>>

\* The handlers have returned to the framework.
Handed ==
    /\ strat.pc = "done"
    /\ strat' = [strat EXCEPT !.pc = "idle"]
    /\ UNCHANGED <<disabled, recheck_orders, savedOrders, stored, op, pc, args,
                   rt, cf, ret, raised, ev, acct, ord>>

StratNext ==
    \/ Tick
    \/ MarketOrAccountUpdate
    \/ Handed

StratSpec == Init /\ [][StratNext]_vars

\* ================================================================ claims
\* The truncated amount the running buy or sell needs on the side it spends.
Needed == IF op = "buy" THEN BuyNeeded(args) ELSE SellNeeded(args)

Transient == {"amt", "exp"}

\* C1 (as the claim states it): a retry_action call whose action failed with
\* the amount_to_sell signature on every attempt re-raises after exactly
\* MAX_TRIES retries, that is after MAX_TRIES + 1 invocations of the action.
C1_RaisesAfterThreeRetries ==
    (op = "retry_action" /\ pc = "done" /\ raised = "amt" /\ rt.exp = 0)
        => rt.attempts = MAX_TRIES + 1

\* C2 (as the claim states it): cancel_orders with more than one id whose
\* batched call failed with a remote error other than 'Unable to find
\* Object' has made one individual cancel call per id.
C2_FallbackOnOtherError ==
    (op = "cancel_orders" /\ pc = "done" /\ Len(cf.ids) > 1
       /\ cf.batch \in UnhandledRPCError \ {"notfound"})
        => cf.singles = cf.ids

\* C2 (amended): a cancel of more than one id that ends without raising has
\* made one individual cancel call per id, in the order of the ids, exactly
\* when the batched call failed with 'Unable to find Object'; after a batched
\* call that succeeded or failed with any other error no individual call is
\* made.
C2_FallbackOnNotFound ==
    (op \in CancelOps /\ pc = "done" /\ Len(cf.ids) > 1 /\ raised = "none")
        => /\ cf.batch = "notfound" => cf.singles = cf.ids
           /\ cf.batch # "notfound" => cf.singles = <<>>

C2_Witness ==
    /\ op = "cancel_orders" /\ pc = "done" /\ raised = "none"
    /\ Len(cf.ids) = 3 /\ cf.batch = "notfound" /\ cf.singles = cf.ids

\* C3 (as the claim states it): while the fault flag is true, buy and sell
\* submit nothing to the remote API.
C3_NoSubmitWhileDisabled ==
    (op \in {"buy", "sell"} /\ rt.attempts > 0) => ~disabled

\* C3 (amended): buy and sell do not read the fault flag.  A call goes on to
\* the submission exactly when the truncated amount is not zero and the free
\* balance covers it, whatever the flag is; a call that does not go on has set
\* the flag.
C3_SubmitDecidedByAmountAndBalance ==
    [][(pc = "idle" /\ op' \in {"buy", "sell"}) =>
          LET needed == IF op' = "buy" THEN BuyNeeded(args')
                        ELSE SellNeeded(args')
          IN  /\ (pc' = "call") <=> (needed > 0 /\ args'.balance >= needed)
              /\ pc' # "call" => (pc' = "done" /\ disabled')]_vars

C3_Witness ==
    /\ op = "buy" /\ pc = "done" /\ disabled
    /\ ret.kind = "order" /\ rt.attempts > 0

\* C4: no step of an engine operation takes the fault flag from true to
\* false; only the external reset does.
C4_FlagOneWay ==
    [][op' # "reset" => (disabled => disabled')]_vars

C4_Witness ==
    /\ op = "sell" /\ pc = "done" /\ disabled
    /\ ret.kind = "order" /\ raised = "none"

\* C5: a buy (sell) whose truncated amount is not zero and exceeds the free
\* balance of the base (quote) asset has ended without invoking the remote
\* submission, has set the fault flag, returns None and raises nothing.
C5_InsufficientBalance ==
    (op \in {"buy", "sell"} /\ Needed > 0 /\ args.balance < Needed)
        => /\ pc = "done"
           /\ disabled
           /\ ret = None
           /\ raised = "none"
           /\ rt.attempts = 0

C5_Witness ==
    /\ op = "buy" /\ pc = "done" /\ BuyNeeded(args) > 0 /\ args.balance = 0
    /\ disabled

\* C6: a buy (sell) whose required amount truncates to zero has ended with
\* the fault flag set and None returned, without reading the balance,
\* entering retry_action or invoking the remote submission.
C6_ZeroSize ==
    (op \in {"buy", "sell"} /\ Needed = 0)
        => /\ pc = "done"
           /\ disabled
           /\ ret = None
           /\ raised = "none"
           /\ ~args.balanceRead
           /\ rt = RtInit

C6_Witness ==
    /\ op = "buy" /\ pc = "done" /\ args.amount > 0 /\ args.price > 0
    /\ BuyNeeded(args) = 0 /\ args.balance > 0 /\ disabled

\* C7 (as the claim states it): a cancel whose batched call failed with
\* 'Unable to find Object' raises nothing and makes no individual call.
C7_NotFoundIsSuccess ==
    (op \in CancelOps /\ pc = "done" /\ cf.batch = "notfound")
        => (raised = "none" /\ cf.singles = <<>>)

\* C7 (amended): when the batched call ends with 'Unable to find Object' the
\* error is not raised to the caller, and cancel_orders takes it as a
\* failure of the batch: with more than one id it goes on to the individual
\* call of the first id, with at most one id it ends there.
C7_NotFoundStartsFallback ==
    [][(pc = "call" /\ op \in CancelOps /\ cf.idx = 0
          /\ cf'.batch = "notfound") =>
          /\ raised' = "none"
          /\ IF Len(cf.ids) > 1
             THEN pc' = "call" /\ cf'.idx = 1 /\ cf'.singles = <<cf.ids[1]>>
             ELSE pc' = "done" /\ cf'.singles = <<>>]_vars

C7_Witness ==
    /\ op = "cancel_orders" /\ pc = "call" /\ cf.batch = "notfound"
    /\ cf.idx = 1 /\ Len(cf.ids) > 1

\* C8 (as the claim states it): an UnhandledRPCError of the cancel call that
\* is neither transient nor 'Unable to find Object' leaves the cancel
\* operation as a raised error.
C8_UnknownErrorPropagates ==
    (op \in CancelOps /\ pc = "done" /\ rt.last = "rpc") => raised = "rpc"

\* C8 (amended): a cancel operation raises only an exception that is neither
\* an UnhandledRPCError nor a MissingKeyError, and raises it whenever the
\* remote cancel call raised one; every UnhandledRPCError, the unknown ones
\* included, ends in a normal return.
C8_OnlyOtherTypesPropagate ==
    (op \in CancelOps /\ pc = "done")
        => /\ raised \in {"none", "other"}
           /\ (raised = "other") <=> (rt.last = "other")
           /\ rt.last \in UnhandledRPCError => raised = "none"

C8_Witness ==
    /\ op = "cancel_orders" /\ pc = "done" /\ rt.last = "rpc"
    /\ raised = "none" /\ cf.idx = 0

\* C9: retry_action never invokes the action again after an error that is
\* not one of the two transient signatures: the call ends raising that
\* error, and the buffer clears, account refreshes and waits it has done are
\* those of the transient failures before it (none when it came first, the
\* action then having been invoked exactly once).
C9_FatalErrorImmediate ==
    op = "retry_action"
        => /\ pc = "call" => rt.last \in Transient \cup {"none"}
           /\ (pc = "done" /\ rt.last \notin Transient \cup {"ok"})
                 => /\ raised = rt.last
                    /\ rt.clears = rt.amt + rt.exp
                    /\ rt.refreshes = rt.amt
                    /\ rt.waited2 + rt.waited6 = rt.amt + rt.exp
                    /\ (rt.amt + rt.exp = 0) => rt.attempts = 1

C9_Witness ==
    /\ op = "retry_action" /\ pc = "done" /\ rt.last = "rpc"
    /\ raised = "rpc" /\ rt.attempts = 1 /\ rt.clears = 0

\* C10: a retry_action call whose action failed k <= MAX_TRIES times, each
\* time with the amount_to_sell signature, has not given up; when the action
\* then succeeds the call returns its value after k + 1 invocations and k
\* waits of 2 seconds, and raises nothing.
C10_SucceedsAfterKFailures ==
    (op = "retry_action" /\ pc = "done" /\ rt.exp = 0 /\ rt.amt <= MAX_TRIES
       /\ rt.last \in {"ok", "amt"})
        => /\ rt.last = "ok"
           /\ raised = "none"
           /\ ret.kind = "value"
           /\ rt.attempts = rt.amt + 1
           /\ rt.waited2 = rt.amt
           /\ rt.waited6 = 0

C10_Witness ==
    /\ op = "retry_action" /\ pc = "done" /\ rt.last = "ok"
    /\ rt.amt = 2 /\ rt.exp = 0 /\ rt.waited2 = 2 /\ rt.attempts = 3
    /\ ret.kind = "value"

\* C11: the two transient classes draw on one counter that belongs to one
\* retry_action call.  A call that has not invoked its action yet has the
\* counter at zero; the counter is the number of transient failures of the
\* call so far, of either class; and the call gives up on the transient
\* failure that finds the counter above MAX_TRIES, which is after the same
\* number of retries for every mix of the two classes.
C11_SharedRetryCounter ==
    /\ rt.attempts = 0 => rt.tries = 0
    /\ rt.status # "raise" \/ rt.last \notin Transient
          => /\ rt.tries = rt.amt + rt.exp
             /\ rt.status = "again" => rt.tries <= MAX_TRIES + 1
    /\ (rt.status = "raise" /\ rt.last \in Transient)
          => /\ rt.tries = MAX_TRIES + 1
             /\ rt.amt + rt.exp = rt.tries + 1
             /\ rt.attempts = rt.tries + 1

C11_Witness ==
    /\ op = "retry_action" /\ pc = "done" /\ raised = "exp"
    /\ rt.amt > 0 /\ rt.exp > 1 /\ rt.status = "raise"

\* C12: whenever retry_action is about to invoke its action, every
\* invocation it made before failed with one of the two transient
\* signatures and was followed by a clear of the transaction buffer; the
\* amount_to_sell failures, and only they, were each followed by a refresh of
\* the account and a wait of 2 seconds, the expiration failures, and only
\* they, by a wait of 6 seconds.
C12_BetweenAttempts ==
    pc = "call"
        => /\ rt.last \in Transient \cup {"none"}
           /\ rt.attempts = rt.amt + rt.exp
           /\ rt.clears = rt.attempts
           /\ rt.refreshes = rt.amt
           /\ rt.waited2 = rt.amt
           /\ rt.waited6 = rt.exp

C12_Witness ==
    /\ op = "retry_action" /\ pc = "call" /\ rt.last = "exp"
    /\ rt.amt = 1 /\ rt.exp = 2 /\ rt.clears = 3 /\ rt.refreshes = 1
    /\ rt.waited2 = 1 /\ rt.waited6 = 2

\* C13: when the submission of buy(amount, price) returns and the lookup
\* gives an order marked deleted, buy returns that order with quote = amount
\* of the quote asset, base = amount * price of the base asset and price =
\* price (10 at 5: quote 10, base 50), and recheck_orders is true; when the
\* lookup gives a live order, buy returns the ledger's record as it is and
\* recheck_orders keeps its value.
C13_BuySynthesizesDeletedOrder ==
    [][(op = "buy" /\ pc = "call" /\ rt'.status = "return"
          /\ ~args.return_none) =>
          /\ pc' = "done" /\ raised' = "none" /\ ret'.kind = "order"
          /\ ret'.deleted =>
                /\ ret'.quote = args.amount /\ ret'.quoteSym = "QUOTE"
                /\ ret'.base = args.amount * args.price
                /\ ret'.baseSym = "BASE"
                /\ ret'.price = <<args.price, 1>>
                /\ recheck_orders'
          /\ ~ret'.deleted =>
                /\ ret' = LedgerOrder("buy", ret'.id, FALSE, args.amount,
                                      args.price)
                /\ recheck_orders' = recheck_orders
          /\ LET o == calculate_order_data(
                          LedgerOrder("buy", 1, TRUE, 10, 5), 10, 5)
             IN  o.quote = 10 /\ o.base = 50 /\ o.price = <<5, 1>>]_vars

C13_Witness ==
    /\ op = "buy" /\ pc = "done" /\ raised = "none" /\ ~args.return_none
    /\ args.amount = 1 /\ args.price = 2
    /\ ret.kind = "order" /\ ret.deleted /\ ret.quote = 1 /\ ret.base = 2
    /\ ret.price = <<2, 1>> /\ recheck_orders

\* C14: when the submission of sell(amount, price) returns and the lookup
\* gives an order marked deleted, calculate_order_data gives the record
\* base = amount * price, quote = amount (5 at 2: base 10, quote 5), and sell
\* returns the inversion of that record: quote = amount * price of the base
\* asset, base = amount of the quote asset (quote 10, base 5), the price
\* inverted.
C14_SellReturnsInvertedRecord ==
    [][(op = "sell" /\ pc = "call" /\ rt'.status = "return"
          /\ ret'.deleted) =>
          LET c == calculate_order_data(
                       LedgerOrder("sell", ret'.id, TRUE, args.amount,
                                   args.price),
                       args.amount, args.price)
              e == calculate_order_data(
                       LedgerOrder("sell", 1, TRUE, 5, 2), 5, 2)
          IN  /\ c.base = args.amount * args.price /\ c.quote = args.amount
              /\ ret' = invert(c)
              /\ ret'.quote = args.amount * args.price
              /\ ret'.quoteSym = "BASE"
              /\ ret'.base = args.amount /\ ret'.baseSym = "QUOTE"
              /\ ret'.price = <<1, args.price>>
              /\ e.base = 10 /\ e.quote = 5
              /\ invert(e).quote = 10 /\ invert(e).base = 5]_vars

C14_Witness ==
    /\ op = "sell" /\ pc = "done" /\ raised = "none"
    /\ args.amount = 1 /\ args.price = 2
    /\ ret.kind = "order" /\ ret.deleted /\ ret.quote = 2 /\ ret.base = 1
    /\ ret.price = <<1, 2>>

\* The notification being delivered was raised as onMarketUpdate.
MarketNotification ==
    ev.log # <<>> /\ ev.log[1].event = "onMarketUpdate"

\* The positions of the log where classified event e was called.
Fired(e) ==
    {i \in 1..Len(ev.log) : ev.log[i].act = "fire" /\ ev.log[i].event = e}

\* The positions of the log where target h of event e was invoked.
Ran(e, h) ==
    {i \in 1..Len(ev.log) :
        ev.log[i].act = "run" /\ ev.log[i].event = e
        /\ ev.log[i].handler = h}

KindEvent ==
    [d \in Kinds \ {"other"} |->
        CASE d = "FilledOrder" -> "onOrderMatched"
          [] d = "Order" -> "onOrderPlaced"
          [] d = "UpdateCallOrder" -> "onUpdateCallOrder"]

\* C15 (as the claim states it): once an onMarketUpdate notification has
\* been delivered, exactly one of onOrderMatched, onOrderPlaced and
\* onUpdateCallOrder has been called, exactly once.
C15_ExactlyOneClassifiedEvent ==
    (ev.pc = "done" /\ MarketNotification)
        => Cardinality(UNION {Fired(e) : e \in ClassifiedEvents}) = 1

\* C15 (amended): once an onMarketUpdate notification has been delivered,
\* a FilledOrder has called onOrderMatched, an Order onOrderPlaced and an
\* UpdateCallOrder onUpdateCallOrder, each exactly once and with every
\* target of that event invoked once, and none of the other two; a
\* notification of any other kind has called none of the three.
C15_OneEventPerKnownKind ==
    (ev.pc = "done" /\ MarketNotification)
        => \A e \in ClassifiedEvents :
              LET n == IF ev.d # "other" /\ KindEvent[ev.d] = e
                       THEN 1 ELSE 0
              IN  /\ Cardinality(Fired(e)) = n
                  /\ \A i \in 1..Len(ev.handlers[e]) :
                        Cardinality(Ran(e, ev.handlers[e][i])) = n

C15_Witness ==
    /\ ev.pc = "done" /\ MarketNotification /\ ev.d = "FilledOrder"
    /\ Cardinality(Fired("onOrderMatched")) = 1
    /\ Cardinality(Ran("onOrderMatched",
                       Handler("caller", "onOrderMatched"))) = 1
    /\ ev.handlers["onOrderPlaced"] # <<>>
    /\ Fired("onOrderPlaced") = {}

\* C16 (as the claim states it): while an onMarketUpdate notification of one
\* of the three classified kinds is delivered, every raw onMarketUpdate
\* handler (every target of onMarketUpdate but the classifier, the handler
\* passed to the constructor included) is invoked only after the classified
\* event has been called.
C16_ClassifiedBeforeRaw ==
    (MarketNotification /\ ev.d # "other")
        => \A i \in 1..Len(ev.log) :
              (ev.log[i].act = "run" /\ ev.log[i].event = "onMarketUpdate"
                 /\ ev.log[i].handler # Classifier)
                  => \E j \in Fired(KindEvent[ev.d]) : j < i

\* C17: pause_worker changes the saved orders only in the step in which its
\* cancel of all orders has ended without raising, and then it clears them;
\* while the cancel is under way, and when the cancel raises, they are as
\* they were.  No step of pause_worker changes the persisted keys.
C17_PauseCancelsThenClears ==
    [][op' = "pause_worker" =>
          /\ stored' = stored
          /\ (pc' = "call" \/ raised' # "none")
                => savedOrders' = savedOrders
          /\ (pc' = "done" /\ raised' = "none") => savedOrders' = {}]_vars

C17_Witness ==
    /\ op = "pause_worker" /\ pc = "done" /\ raised = "other"
    /\ rt.attempts > 0 /\ savedOrders # {} /\ stored # {}

\* C18: purge clears the saved orders in its first step, before the cancel
\* of all orders, and clears the persisted keys only in the step in which
\* that cancel has ended without raising; while the cancel is under way, and
\* when it raises, the persisted keys are as they were and the saved orders
\* are already cleared.
C18_PurgeClearsStorageLast ==
    [][op' = "purge" =>
          /\ savedOrders' = {}
          /\ (pc' = "call" \/ raised' # "none") => stored' = stored
          /\ (pc' = "done" /\ raised' = "none") => stored' = {}]_vars

C18_Witness ==
    /\ op = "purge" /\ pc = "done" /\ raised = "other"
    /\ rt.attempts > 0 /\ savedOrders = {} /\ stored # {}

RECURSIVE LiveOrdersValue(_, _)
LiveOrdersValue(a, ids) ==
    IF ids = {} THEN 0
    ELSE LET i == CHOOSE x \in ids : TRUE
             o == a.limit_orders[i]
             v == IF o.symbol = a.return_asset THEN o.for_sale
                  ELSE o.for_sale * a.latest[o.symbol]
         IN  v + LiveOrdersValue(a, ids \ {i})

\* C20 (as the claim states it): account_total_value does not fail when the
\* updated lookup of an open order finds no such order.  It returns the value
\* of the balances plus, for every open order the lookup finds, its updated
\* base-leg amount, converted to the target asset when the asset differs; an
\* open order the lookup does not find adds nothing.
C20_MissingOrderCountsAsClosed ==
    (acct.pc = "done" /\ acct.op = "account_total_value")
        => /\ acct.raised = "none"
           /\ acct.value =
                 BalancesValue(acct.balances, Assets, acct.return_asset,
                               acct.latest)
                 + LiveOrdersValue(acct,
                       {i \in 1..Len(acct.all_orders) :
                           acct.all_orders[i] \in DOMAIN acct.limit_orders})

\* C21: get_updated_order raises nothing.  For an id that is not the id of
\* one of the account's limit orders it returns None; for an id that is, it
\* returns the order of that id with the updated base leg of that item: what
\* is still for sale, in the asset the order sells.
C21_UpdatedOrderOrNone ==
    (acct.pc = "done" /\ acct.op = "get_updated_order")
        => /\ acct.raised = "none"
           /\ acct.order_id \notin DOMAIN acct.limit_orders
                 => acct.order = None
           /\ acct.order_id \in DOMAIN acct.limit_orders
                 => /\ acct.order.kind = "order"
                    /\ acct.order.id = acct.order_id
                    /\ acct.order.base =
                          acct.limit_orders[acct.order_id].for_sale
                    /\ acct.order.baseSym =
                          acct.limit_orders[acct.order_id].symbol

C21_Witness ==
    /\ acct.pc = "done" /\ acct.op = "get_updated_order"
    /\ acct.order_id = 1 /\ DOMAIN acct.limit_orders = {2}
    /\ acct.order = None

\* The sum, over the positions of the id list from i on, of what is still
\* for sale in the orders that are among the account's limit orders and
\* sell `asset`.
RECURSIVE LockedIn(_, _, _, _)
LockedIn(limit_orders, ids, i, asset) ==
    IF i > Len(ids) THEN 0
    ELSE (IF ids[i] \in DOMAIN limit_orders
             /\ limit_orders[ids[i]].symbol = asset
          THEN limit_orders[ids[i]].for_sale ELSE 0)
         + LockedIn(limit_orders, ids, i + 1, asset)

\* C23: get_allocated_assets raises nothing and returns, for quote and for
\* base, the sum of the updated base-leg amounts of the given ids whose order
\* sells that asset: {0, 0} when the ids are None or empty; an id that is not
\* among the account's limit orders and an order that sells another asset
\* add nothing; the account's balances are not in the sums.
C23_AllocatedIsLockedFunds ==
    (acct.pc = "done" /\ acct.op = "get_allocated_assets")
        => /\ acct.raised = "none"
           /\ acct.amounts.quote =
                 LockedIn(acct.limit_orders, acct.order_ids.ids, 1, "QUOTE")
           /\ acct.amounts.base =
                 LockedIn(acct.limit_orders, acct.order_ids.ids, 1, "BASE")
           /\ (acct.order_ids.kind = "None" \/ acct.order_ids.ids = <<>>)
                 => acct.amounts = [quote |-> 0, base |-> 0]

C23_Witness ==
    /\ acct.pc = "done" /\ acct.op = "get_allocated_assets"
    /\ acct.order_ids = [kind |-> "list", ids |-> <<1, 2>>]
    /\ DOMAIN acct.limit_orders = {2}
    /\ acct.limit_orders[2] = [for_sale |-> 1, symbol |-> "QUOTE"]
    /\ acct.balances["QUOTE"] = 1
    /\ acct.amounts = [quote |-> 1, base |-> 0]

\* The ids count_asset sums over: the given ones, or those of the open
\* orders of the market when none are given.
CountedIds ==
    IF acct.order_ids.kind = "None" THEN acct.orders ELSE acct.order_ids.ids

\* C22: count_asset returns, for quote and for base, the free balance plus
\* the sum of the base-leg amounts of the given orders (by default all open
\* orders of the market) whose base-leg asset is that asset; free {quote 3,
\* base 0} with one sell order locking quote 2 gives {quote 5, base 0}.
C22_CountAssetIsFreePlusLocked ==
    /\ (acct.pc = "done" /\ acct.op = "count_asset")
           => /\ acct.raised = "none"
              /\ acct.amounts.quote = acct.balances["QUOTE"]
                    + LockedIn(acct.limit_orders, CountedIds, 1, "QUOTE")
              /\ acct.amounts.base = acct.balances["BASE"]
                    + LockedIn(acct.limit_orders, CountedIds, 1, "BASE")
    /\ count_asset([s \in Assets |-> IF s = "QUOTE" THEN 3 ELSE 0],
                   [kind |-> "None", ids |-> <<>>], <<1>>,
                   [i \in {1} |-> [for_sale |-> 2, symbol |-> "QUOTE"]])
          = [quote |-> 5, base |-> 0]

C22_Witness ==
    /\ acct.pc = "done" /\ acct.op = "count_asset"
    /\ acct.order_ids.kind = "None"
    /\ acct.orders = <<1>>
    /\ DOMAIN acct.limit_orders = {1}
    /\ acct.limit_orders[1] = [for_sale |-> 1, symbol |-> "QUOTE"]
    /\ acct.balances = [s \in Assets |-> IF s = "QUOTE" THEN 1 ELSE 0]
    /\ acct.amounts = [quote |-> 2, base |-> 0]

\* The items are those of the list, each once.
IsPermutation(items, orders) ==
    /\ Len(items) = Len(orders)
    /\ \A i \in 1..Len(orders) :
          Cardinality({j \in 1..Len(items) : items[j] = orders[i]}) = 1

NonDecreasing(items) ==
    \A i, j \in 1..Len(items) : i < j => items[i].price <= items[j].price

NonIncreasing(items) ==
    \A i, j \in 1..Len(items) : i < j => items[i].price >= items[j].price

SortedAs(direction) ==
    /\ ord.sorted.kind = "list"
    /\ IsPermutation(ord.sorted.items, ord.given)
    /\ IF direction = "ASC" THEN NonDecreasing(ord.sorted.items)
       ELSE NonIncreasing(ord.sorted.items)

\* C24 as stated: sort_orders returns a permutation of the orders that is
\* non-decreasing in price for the direction ASC and non-increasing for
\* DESC, and None for every other direction string.
C24_OnlyAscDescSort ==
    ord.sorted # Unset
        => /\ ord.sort = "ASC" => SortedAs("ASC")
           /\ ord.sort = "DESC" => SortedAs("DESC")
           /\ ord.sort \notin {"ASC", "DESC"} => ord.sorted = None

\* C24: sort_orders returns a permutation of the orders that is
\* non-decreasing in price for the direction ASC and non-increasing for
\* DESC, in whatever letter case the direction is written, and None for
\* every other direction string.
C24_AscDescInAnyCaseSort ==
    ord.sorted # Unset
        => /\ ord.sort \in {"ASC", "asc"} => SortedAs("ASC")
           /\ ord.sort \in {"DESC", "Desc"} => SortedAs("DESC")
           /\ ord.sort \notin {"ASC", "asc", "DESC", "Desc"}
                 => ord.sorted = None

C24_Witness ==
    /\ Len(ord.given) = 2
    /\ ord.given[1].price = 2 /\ ord.given[2].price = 1
    /\ ord.sort = "asc"
    /\ ord.sorted.kind = "list" /\ ord.sorted.items[1].id = 2

\* How many times the order is among the items of a query's result.
TimesIn(result, order) ==
    Cardinality({j \in 1..Len(result.items) : result.items[j] = order})

Recognised == {NoSort, "ASC", "asc", "DESC", "Desc"}

\* C25: handed a non-empty list of orders (and no sort, or a direction that
\* sort_orders knows), get_own_sell_orders returns exactly the orders whose
\* base-leg symbol differs from the market's base symbol and
\* get_own_buy_orders exactly the others, so every order of the list is in
\* exactly one of the two results.
C25_BuyAndSellSplitTheOrders ==
    ord.given # <<>>
        => /\ (ord.buy_orders # Unset /\ ord.sort_buy \in Recognised)
                 => /\ ord.buy_orders.kind = "list"
                    /\ \A i \in 1..Len(ord.given) :
                          TimesIn(ord.buy_orders, ord.given[i])
                              = IF ord.given[i].baseSym # "BASE" THEN 0 ELSE 1
                    /\ Len(ord.buy_orders.items) <= Len(ord.given)
           /\ (ord.sell_orders # Unset /\ ord.sort_sell \in Recognised)
                 => /\ ord.sell_orders.kind = "list"
                    /\ \A i \in 1..Len(ord.given) :
                          TimesIn(ord.sell_orders, ord.given[i])
                              = IF ord.given[i].baseSym # "BASE" THEN 1 ELSE 0
                    /\ Len(ord.sell_orders.items) <= Len(ord.given)
           /\ (/\ ord.buy_orders # Unset /\ ord.sort_buy \in Recognised
               /\ ord.sell_orders # Unset /\ ord.sort_sell \in Recognised)
                 => \A i \in 1..Len(ord.given) :
                       TimesIn(ord.buy_orders, ord.given[i])
                           + TimesIn(ord.sell_orders, ord.given[i]) = 1

C25_Witness ==
    /\ Len(ord.given) = 2
    /\ ord.given[1].baseSym = "QUOTE" /\ ord.given[2].baseSym = "BASE"
    /\ ord.sort_buy = NoSort /\ ord.sort_sell = "DESC"
    /\ ord.buy_orders = List(<<ord.given[2]>>)
    /\ ord.sell_orders = List(<<ord.given[1]>>)

\* C26: when the remote cancel call of a cancelling operation fails with
\* MissingKeyError, the call is not made again and no cancel of single
\* orders follows the batched one, the operation ends without raising, and
\* the fault flag keeps its value.
C26_MissingKeyAbandonsCancel ==
    [][(pc = "call" /\ op \in CancelOps /\ rt'.last = "key")
          => /\ rt'.status = "raise"
             /\ rt'.attempts = rt.attempts + 1
             /\ pc' = "done"
             /\ raised' = "none"
             /\ cf'.idx = cf.idx /\ cf'.singles = cf.singles
             /\ disabled' = disabled]_vars

C26_Witness ==
    /\ op = "cancel_orders" /\ pc = "done"
    /\ Len(cf.ids) = 2 /\ cf.batch = "key" /\ cf.singles = <<>>
    /\ rt.last = "key" /\ rt.attempts = 1
    /\ raised = "none"
    /\ disabled = TRUE

\* C30: when the submission of a buy or sell called with return_none=True
\* returns, the call returns without raising, leaves recheck_orders and the
\* fault flag as they were, and returns either the ledger's record of a live
\* order or, for an order the lookup reports deleted, None and no
\* synthesized record; a buy or sell that rejects its order (zero size,
\* insufficient balance) returns None too, with the fault flag set.
C30_ReturnNoneHidesInstantFill ==
    [][/\ (op \in {"buy", "sell"} /\ pc = "call" /\ rt'.status = "return"
           /\ args.return_none)
          => /\ pc' = "done" /\ raised' = "none"
             /\ recheck_orders' = recheck_orders
             /\ disabled' = disabled
             /\ \/ ret' = None
                \/ /\ ret'.kind = "order" /\ ~ret'.deleted
                   /\ ret' = LedgerOrder(op, ret'.id, FALSE, args.amount,
                                         args.price)
       /\ (pc = "idle" /\ op' \in {"buy", "sell"} /\ pc' = "done")
          => ret' = None /\ disabled']_vars

C30_Witness ==
    /\ op = "sell" /\ pc = "done" /\ args.return_none
    /\ rt.status = "return" /\ raised = "none"
    /\ ret = None /\ ~recheck_orders /\ ~disabled

\* C27: a run of maintain_strategy that finds a buy order of the worker and
\* reads the same market prices as the run before it cancels no order and
\* places no order.
C27_SamePriceMeansNoAction ==
    (/\ strat.pc = "done" /\ strat.ran
     /\ strat.seen.own
     /\ strat.prev # NoObservation
     /\ strat.seen.ask = strat.prev.ask /\ strat.seen.bid = strat.prev.bid)
        => strat.cancelled = 0 /\ strat.placed = 0

\* C28: tick runs maintain_strategy exactly when the counter is a multiple
\* of three; the counter goes up by one when the tick does not raise and
\* stays when maintain_strategy raised, so that the next tick runs it again;
\* as long as no tick has raised the counter is the number of ticks, and
\* maintain_strategy has run on the ticks number 0, 3, 6, ...
C28_EveryThirdTick ==
    /\ ~strat.failed => strat.counter = strat.ticks
    /\ (strat.pc = "done" /\ strat.event = "ontick")
          => /\ strat.ran <=> (strat.before % 3 = 0)
             /\ strat.raised = "none" => strat.counter = strat.before + 1
             /\ strat.raised # "none"
                   => strat.ran /\ strat.counter = strat.before
             /\ ~strat.failed => (strat.ran <=> (strat.ticks - 1) % 3 = 0)

C28_Witness ==
    /\ strat.pc = "done" /\ strat.event = "ontick"
    /\ strat.ticks = 5
    /\ strat.before = 3 /\ strat.counter = 3
    /\ strat.ran /\ strat.raised = "NameError"

====
